---- MODULE Spec2Model ----
(***************************************************************************)
(* AliAnalysisTaskJetSpectrum: the closest-jet matcher GetClosestJets and  *)
(* the per-event handler UserExec that feeds it.                           *)
(*                                                                         *)
(* Distances are integers on a fine grid (the Double_t values DeltaR       *)
(* returns); the Float_t values are the multiples of FloatStep, and        *)
(* storing a distance in the Float_t variable dist rounds it to the        *)
(* nearest of them.  maxDist is a Float_t, hence a multiple of FloatStep.  *)
(***************************************************************************)
EXTENDS Integers, FiniteSets, Sequences, TLC

\* ---------------------------------------------------------------- bounds
\* capacity of the jet buffers and of the index arrays (scaled down)
kMaxJets == 2
\* entries a source array can hold beyond kMaxJets
MaxExtra == 1
\* events the task is given
MaxEvents == 2

\* ------------------------------------------------------------- constants
\* spacing of the Float_t grid on the Double_t grid
FloatStep == 3
\* const Float_t maxDist = 1.4
maxDist == 3

Slots == 0 .. (kMaxJets - 1)
\* the distances DeltaR returns: those below maxDist and maxDist itself, which
\* stands for every distance that fails dR < dist from the start
DistVals == 0 .. maxDist
NoMatch == -1

\* Float_t dist = dR : round to the nearest Float_t value
Fl(x) ==
  IF x % FloatStep = 0 THEN x
  ELSE IF 2 * (x % FloatStep) < FloatStep THEN x - (x % FloatStep)
  ELSE x + (FloatStep - (x % FloatStep))

VARIABLES
  pc,          \* position inside GetClosestJets
  dR,          \* dR[g][r] : genJets[g].DeltaR(&recJets[r])
  nGenJets,    \* count of generated jets passed to GetClosestJets
  nRecJets,    \* count of reconstructed jets passed to GetClosestJets
  iGenIndex,   \* iGenIndex[r] : generated jet of the r-th reconstructed jet
  iRecIndex,   \* iRecIndex[g] : reconstructed jet of the g-th generated jet
  iFlag,       \* the flag matrix
  passes,      \* the passes GetClosestJets has run in this invocation
  atEntry,     \* the arguments as they were when GetClosestJets was entered
  taskPc,      \* life cycle of the task object
  fAOD,        \* TRUE when fAOD points to an AOD event
  fAnalysisMC, \* (fAnalysisType & kAnaMC) == kAnaMC
  fBranchGenSet, \* fBranchGen.Length() > 0
  fHistList,   \* TRUE when the histograms have been created
  hist,        \* number of Fill calls each histogram has received
  fEntry,      \* events handed to UserExec so far
  event,       \* the inputs that were missing in the last event
  outcome,     \* how the last UserExec ended
  written      \* the indices the last UserExec used to write each jet buffer

matchVars == <<pc, dR, nGenJets, nRecJets, iGenIndex, iRecIndex, iFlag, passes,
               atEntry>>
taskVars == <<taskPc, fAOD, fAnalysisMC, fBranchGenSet, fHistList, hist, fEntry,
              event, outcome, written>>
vars == <<matchVars, taskVars>>

AllNoMatch == [i \in Slots |-> NoMatch]
EmptyDist == [g \in {} |-> [r \in {} |-> 0]]
ZeroFlag == [i \in Slots |-> [j \in Slots |-> 0]]

\* ------------------------------------------------------- GetClosestJets

\* ResetIndex without the assignments of lines 531-532
ResetIndexNone(idx) == idx

\* ResetFlag without the assignment of line 533
ResetFlagNone(flag) == flag

\* lines 530-534
ResetIndex(idx) == [i \in Slots |-> NoMatch]
ResetFlag(flag) == [i \in Slots |-> [j \in Slots |-> 0]]

\* ScanRec with dR <= dist as the test of line 548
RECURSIVE ScanRecLe(_, _, _, _, _, _)
ScanRecLe(d, ig, ir, nRec, idx, dist) ==
  IF ir >= nRec THEN idx
  ELSE IF d[ig][ir] <= dist
       THEN ScanRecLe(d, ig, ir + 1, nRec, ir, Fl(d[ig][ir]))
       ELSE ScanRecLe(d, ig, ir + 1, nRec, idx, dist)

\* lines 544-552 : the inner loop over ir for one ig; idx is iRecIndex[ig]
RECURSIVE ScanRec(_, _, _, _, _, _)
ScanRec(d, ig, ir, nRec, idx, dist) ==
  IF ir >= nRec THEN idx
  ELSE IF d[ig][ir] < dist
       THEN ScanRec(d, ig, ir + 1, nRec, ir, Fl(d[ig][ir]))
       ELSE ScanRec(d, ig, ir + 1, nRec, idx, dist)

\* lines 558-564 : the inner loop over ig for one ir; idx is iGenIndex[ir]
RECURSIVE ScanGen(_, _, _, _, _, _)
ScanGen(d, ir, ig, nGen, idx, dist) ==
  IF ig >= nGen THEN idx
  ELSE IF d[ig][ir] < dist
       THEN ScanGen(d, ir, ig + 1, nGen, ig, Fl(d[ig][ir]))
       ELSE ScanGen(d, ir, ig + 1, nGen, idx, dist)

\* lines 541-552 : iRecIndex after the forward pass
ForwardIndex(d, nGen, nRec, rec) ==
  [g \in Slots |-> IF g < nGen THEN ScanRec(d, g, 0, nRec, rec[g], maxDist)
                   ELSE rec[g]]

\* line 553 : iFlag after the forward pass, rec is iRecIndex after it
ForwardFlag(flag, nGen, rec) ==
  [g \in Slots |-> [r \in Slots |->
     IF g < nGen /\ rec[g] >= 0 /\ rec[g] = r THEN flag[g][r] + 1
     ELSE flag[g][r]]]

\* lines 556-564 : iGenIndex after the backward pass
BackwardIndex(d, nGen, nRec, gen) ==
  [r \in Slots |-> IF r < nRec THEN ScanGen(d, r, 0, nGen, gen[r], maxDist)
                   ELSE gen[r]]

\* BackwardFlag with = 2 for the += 2 of line 565
BackwardFlagAssign(flag, nRec, gen) ==
  [g \in Slots |-> [r \in Slots |->
     IF r < nRec /\ gen[r] >= 0 /\ gen[r] = g THEN 2
     ELSE flag[g][r]]]

\* line 565 : iFlag after the backward pass, gen is iGenIndex after it
BackwardFlag(flag, nRec, gen) ==
  [g \in Slots |-> [r \in Slots |->
     IF r < nRec /\ gen[r] >= 0 /\ gen[r] = g THEN flag[g][r] + 2
     ELSE flag[g][r]]]

\* Accepted with any flag bit as the test of line 576
AcceptedAnyFlag(flag, ig, ir) == flag[ig][ir] >= 1

\* lines 576-582 : the verdict on one cell
Accepted(flag, ig, ir) == flag[ig][ir] = 3

\* Consensus reporting every cell with flag 3, whatever cells come after it
ConsensusAggregate(flag, nGen, nRec, c, gen, rec) ==
  <<[r \in Slots |->
       IF r >= nRec THEN gen[r]
       ELSE IF \E g \in Slots : g < nGen /\ flag[g][r] = 3
            THEN CHOOSE g \in Slots : g < nGen /\ flag[g][r] = 3
            ELSE NoMatch],
    [g \in Slots |->
       IF g >= nGen THEN rec[g]
       ELSE IF \E r \in Slots : r < nRec /\ flag[g][r] = 3
            THEN CHOOSE r \in Slots : r < nRec /\ flag[g][r] = 3
            ELSE NoMatch]>>

\* Consensus without the else branch of lines 580-582
RECURSIVE ConsensusKeep(_, _, _, _, _, _)
ConsensusKeep(flag, nGen, nRec, c, gen, rec) ==
  IF c >= nGen * nRec THEN <<gen, rec>>
  ELSE LET ig == c \div nRec
           ir == c % nRec
       IN IF flag[ig][ir] = 3
          THEN ConsensusKeep(flag, nGen, nRec, c + 1,
                             [gen EXCEPT ![ir] = ig], [rec EXCEPT ![ig] = ir])
          ELSE ConsensusKeep(flag, nGen, nRec, c + 1, gen, rec)

\* lines 572-585 : the cells in row-major order, c = ig * nRec + ir;
\* the result is <<iGenIndex, iRecIndex>>
RECURSIVE Consensus(_, _, _, _, _, _)
Consensus(flag, nGen, nRec, c, gen, rec) ==
  IF c >= nGen * nRec THEN <<gen, rec>>
  ELSE LET ig == c \div nRec
           ir == c % nRec
       IN IF Accepted(flag, ig, ir)
          THEN Consensus(flag, nGen, nRec, c + 1,
                         [gen EXCEPT ![ir] = ig], [rec EXCEPT ![ig] = ir])
          ELSE Consensus(flag, nGen, nRec, c + 1,
                         [gen EXCEPT ![ir] = NoMatch], [rec EXCEPT ![ig] = NoMatch])

\* IsEmpty without the test of line 537
IsEmptyRecOnly(nGen, nRec) == nRec = 0

\* lines 536-537 : the test of the two early returns
IsEmpty(nGen, nRec) == nRec = 0 \/ nGen = 0

\* lines 528-534
ResetOutputs ==
  /\ pc = "entry"
  /\ iRecIndex' = ResetIndex(iRecIndex)
  /\ iGenIndex' = ResetIndex(iGenIndex)
  /\ iFlag' = ResetFlag(iFlag)
  /\ pc' = "zeroed"
  /\ UNCHANGED <<dR, nGenJets, nRecJets, passes, atEntry, taskVars>>

\* lines 536-537
ReturnEmpty ==
  /\ pc = "zeroed"
  /\ IsEmpty(nGenJets, nRecJets)
  /\ pc' = "done"
  /\ UNCHANGED <<dR, nGenJets, nRecJets, iGenIndex, iRecIndex, iFlag, passes, atEntry, taskVars>>

\* lines 539-554
ForwardPass ==
  /\ pc = "zeroed"
  /\ ~IsEmpty(nGenJets, nRecJets)
  /\ iRecIndex' = ForwardIndex(dR, nGenJets, nRecJets, iRecIndex)
  /\ iFlag' = ForwardFlag(iFlag, nGenJets, iRecIndex')
  /\ passes' = passes \cup {"forward"}
  /\ pc' = "forward"
  /\ UNCHANGED <<dR, nGenJets, nRecJets, iGenIndex, atEntry, taskVars>>

\* lines 556-566
BackwardPass ==
  /\ pc = "forward"
  /\ iGenIndex' = BackwardIndex(dR, nGenJets, nRecJets, iGenIndex)
  /\ iFlag' = BackwardFlag(iFlag, nRecJets, iGenIndex')
  /\ passes' = passes \cup {"backward"}
  /\ pc' = "backward"
  /\ UNCHANGED <<dR, nGenJets, nRecJets, iRecIndex, atEntry, taskVars>>

\* lines 568-586
ConsensusPass ==
  /\ pc = "backward"
  /\ LET res == Consensus(iFlag, nGenJets, nRecJets, 0, iGenIndex, iRecIndex)
     IN /\ iGenIndex' = res[1]
        /\ iRecIndex' = res[2]
  /\ passes' = passes \cup {"consensus"}
  /\ pc' = "done"
  /\ UNCHANGED <<dR, nGenJets, nRecJets, iFlag, atEntry, taskVars>>

\* lines 495-586 : one whole call, as UserExec makes it
GetClosestJets(d, nGen, nRec, gen, rec, flag) ==
  LET gen0 == ResetIndex(gen)
      rec0 == ResetIndex(rec)
      flag0 == ResetFlag(flag)
  IN IF IsEmpty(nGen, nRec)
     THEN [gen |-> gen0, rec |-> rec0, flag |-> flag0, passes |-> {}]
     ELSE LET rec1 == ForwardIndex(d, nGen, nRec, rec0)
              flag1 == ForwardFlag(flag0, nGen, rec1)
              gen2 == BackwardIndex(d, nGen, nRec, gen0)
              flag2 == BackwardFlag(flag1, nRec, gen2)
              res == Consensus(flag2, nGen, nRec, 0, gen2, rec1)
          IN [gen |-> res[1], rec |-> res[2], flag |-> flag2,
              passes |-> {"forward", "backward", "consensus"}]

\* ----------------------------------------------------------- the task

Min(a, b) == IF a < b THEN a ELSE b

\* the histograms, by the number of Fill calls; the per-jet ones are arrays
NoFills ==
  [fh1PtHard |-> 0, fh1NGenJets |-> 0, fh1NRecJets |-> 0,
   fh1PtRecIn |-> [i \in Slots |-> 0], fh1PtRecOut |-> [i \in Slots |-> 0],
   fh1PtGenIn |-> [i \in Slots |-> 0], fh1PtGenOut |-> [i \in Slots |-> 0]]

NoWrites == [genJets |-> {}, recJets |-> {}, pythiaGenJets |-> {}]
NoEvent == {}

\* entries a source array of the event can hold
Entries == 0 .. (kMaxJets + MaxExtra)

\* the distances of the jets of one event: every pair of jets is at the
\* same distance
EventDist(nGen, nRec) ==
  {[g \in 0 .. (nGen - 1) |-> [r \in 0 .. (nRec - 1) |-> v]] : v \in DistVals}

\* the entries of a source array of n entries that may be no AliAODJet:
\* any of those past the capacity of the buffer
NullSets(n) == SUBSET (kMaxJets .. (n - 1))

\* lines 383-393 : the indices the Pythia loop writes
PythiaWrites(nPythiaGenJets) == {ip \in 0 .. (nPythiaGenJets - 1) : ~(ip >= kMaxJets)}

\* lines 409-413 and 428-432 : the indices a copy loop writes, null being the
\* entries of the array that are no AliAODJet
CopyWrites(n, null) == {i \in 0 .. (n - 1) : i \notin null}

\* lines 451-469 : the fills of the loop over the reconstructed jets
FillRec(h, nGen, nRec, gen) ==
  [h EXCEPT
     !.fh1PtRecIn = [i \in Slots |-> IF i < nRec THEN @[i] + 1 ELSE @[i]],
     !.fh1PtRecOut = [i \in Slots |->
        IF i < nRec /\ gen[i] >= 0 /\ gen[i] < nGen THEN @[i] + 1 ELSE @[i]]]

\* lines 473-481 : the fills of the loop over the generated jets
FillGen(h, nGen, rec) ==
  [h EXCEPT
     !.fh1PtGenIn = [i \in Slots |-> IF i < nGen THEN @[i] + 1 ELSE @[i]],
     !.fh1PtGenOut = [i \in Slots |->
        IF i < nGen /\ rec[i] >= 0 THEN @[i] + 1 ELSE @[i]]]

\* lines 399-401, 420, 434 : the fills made once per event
FillEvent(h) ==
  [h EXCEPT !.fh1PtHard = @ + 1, !.fh1NGenJets = @ + 1, !.fh1NRecJets = @ + 1]

\* lines 118-290
UserCreateOutputObjects ==
  /\ taskPc = "constructed"
  /\ \E found \in BOOLEAN :
       /\ fAOD' = found
       /\ fHistList' = found
  /\ taskPc' = "ready"
  /\ UNCHANGED <<matchVars, fAnalysisMC, fBranchGenSet, hist, fEntry, event,
                 outcome, written>>

\* an early return of UserExec: lines 315, 335, 363, 367
Skip(missing) ==
  /\ event' = missing
  /\ outcome' = "skipped"
  /\ written' = NoWrites
  /\ fEntry' = fEntry + 1
  /\ UNCHANGED <<matchVars, taskPc, fAOD, fAnalysisMC, fBranchGenSet, fHistList, hist>>

\* the process dies inside UserExec
Crash(missing, wr) ==
  /\ event' = missing
  /\ outcome' = "crashed"
  /\ written' = wr
  /\ taskPc' = "crashed"
  /\ fEntry' = fEntry + 1
  /\ UNCHANGED <<matchVars, fAOD, fAnalysisMC, fBranchGenSet, fHistList, hist>>

\* lines 420-485 once the jets are in the buffers: nGen and nRec are the
\* counts as they stand before the clamps of lines 422 and 435
Relate(missing, wr, nGen, nRec) ==
  LET nG == Min(nGen, kMaxJets)
      nR == Min(nRec, kMaxJets)
  IN \E d \in EventDist(nG, nR) :
       LET m == GetClosestJets(d, nG, nR, AllNoMatch, AllNoMatch, ZeroFlag)
       IN /\ dR' = EmptyDist
          /\ nGenJets' = nG
          /\ nRecJets' = nR
          /\ iGenIndex' = m.gen
          /\ iRecIndex' = m.rec
          /\ iFlag' = ZeroFlag
          /\ passes' = m.passes
          /\ atEntry' = atEntry
          /\ pc' = "done"
          /\ hist' = FillGen(FillRec(FillEvent(hist), nG, nR, m.gen), nG, m.rec)
          /\ event' = missing
          /\ outcome' = "processed"
          /\ written' = wr
          /\ fEntry' = fEntry + 1
          /\ UNCHANGED <<taskPc, fAOD, fAnalysisMC, fBranchGenSet, fHistList>>

\* a write past the end of a jet buffer is undefined, and so is the Printf
\* of line 416, which has three conversions and one argument: the process
\* dies or goes on
AfterWrites(missing, wr, nGen, nRec) ==
  IF /\ \A i \in wr.genJets \cup wr.recJets : i < kMaxJets
     /\ "aodGenJets" \notin missing
  THEN Relate(missing, wr, nGen, nRec)
  ELSE \/ Crash(missing, wr)
       \/ Relate(missing, wr, nGen, nRec)

\* lines 302-485
UserExec ==
  /\ taskPc = "ready"
  /\ fEntry < MaxEvents
  /\ \E aodH \in BOOLEAN :
       IF ~aodH THEN Skip({"aodH"})
       ELSE IF ~fAOD THEN Crash({}, NoWrites)
       ELSE \E aodRecJets \in BOOLEAN :
         IF ~aodRecJets THEN Skip({"aodRecJets"})
         ELSE \E mcEvent \in BOOLEAN, pythiaGenHeader \in BOOLEAN :
           IF fAnalysisMC /\ ~mcEvent THEN Skip({"mcEvent"})
           ELSE IF fAnalysisMC /\ ~pythiaGenHeader THEN Skip({"pythiaGenHeader"})
           ELSE \E nPythiaGenJets \in (IF fAnalysisMC THEN Entries ELSE {0}),
                   aodGenJets \in (IF fBranchGenSet THEN BOOLEAN ELSE {TRUE}),
                   nRecEntries \in Entries :
             \E nGenEntries \in (IF fBranchGenSet /\ aodGenJets THEN Entries ELSE {0}) :
             \E genNull \in NullSets(nGenEntries), recNull \in NullSets(nRecEntries) :
               LET missing == IF fBranchGenSet /\ ~aodGenJets
                              THEN {"aodGenJets"} ELSE {}
                   nGen == IF fBranchGenSet
                           THEN (IF aodGenJets THEN nGenEntries ELSE 0)
                           ELSE nPythiaGenJets
                   wrP == PythiaWrites(nPythiaGenJets)
                   wrG == IF fBranchGenSet
                          THEN CopyWrites(nGenEntries, genNull)
                          ELSE wrP
                   wr == [genJets |-> wrG,
                          recJets |-> CopyWrites(nRecEntries, recNull),
                          pythiaGenJets |-> wrP]
               IN AfterWrites(missing, wr, nGen, nRecEntries)

\* what the caller's buffers and the stack hold when GetClosestJets is entered
Stale ==
  {[gen |-> AllNoMatch, rec |-> AllNoMatch, flag |-> ZeroFlag],
   [gen |-> [i \in Slots |-> 0], rec |-> [i \in Slots |-> kMaxJets - 1],
    flag |-> [i \in Slots |-> [j \in Slots |-> 3]]]}

\* a call of GetClosestJets on any counts within the capacity, any distances
\* and any contents of the output buffers
Init ==
  /\ pc = "entry"
  /\ nGenJets \in 0 .. kMaxJets
  /\ nRecJets \in 0 .. kMaxJets
  /\ dR \in [0 .. (nGenJets - 1) -> [0 .. (nRecJets - 1) -> DistVals]]
  /\ \E old \in Stale :
       /\ iGenIndex = old.gen
       /\ iRecIndex = old.rec
       /\ iFlag = old.flag
  /\ passes = {}
  /\ atEntry = [nGenJets |-> nGenJets, nRecJets |-> nRecJets, dR |-> dR,
                iGenIndex |-> iGenIndex, iRecIndex |-> iRecIndex]
  /\ taskPc = "ready"
  /\ fAOD = TRUE
  /\ fAnalysisMC = FALSE
  /\ fBranchGenSet = FALSE
  /\ fHistList = TRUE
  /\ hist = NoFills
  /\ fEntry = 0
  /\ event = NoEvent
  /\ outcome = "none"
  /\ written = NoWrites

Next ==
  \/ ResetOutputs
  \/ ReturnEmpty
  \/ ForwardPass
  \/ BackwardPass
  \/ ConsensusPass

Spec == Init /\ [][Next]_vars

\* the task after its constructor (lines 54-113) and its configuration
InitExec ==
  /\ pc = "idle"
  /\ nGenJets = 0
  /\ nRecJets = 0
  /\ dR = EmptyDist
  /\ iGenIndex = AllNoMatch
  /\ iRecIndex = AllNoMatch
  /\ iFlag = ZeroFlag
  /\ passes = {}
  /\ atEntry = [nGenJets |-> 0, nRecJets |-> 0, dR |-> EmptyDist,
                iGenIndex |-> AllNoMatch, iRecIndex |-> AllNoMatch]
  /\ taskPc = "constructed"
  /\ fAOD = FALSE
  /\ fAnalysisMC \in BOOLEAN
  /\ fBranchGenSet \in BOOLEAN
  /\ fHistList = FALSE
  /\ hist = NoFills
  /\ fEntry = 0
  /\ event = NoEvent
  /\ outcome = "none"
  /\ written = NoWrites

NextExec ==
  \/ UserCreateOutputObjects
  \/ UserExec

SpecExec == InitExec /\ [][NextExec]_vars

\* ------------------------------------------------------------ properties

GenJets == {g \in Slots : g < nGenJets}
RecJets == {r \in Slots : r < nRecJets}

\* the choice the forward pass makes for g, the backward pass for r
FwdChoice(g) == ScanRec(dR, g, 0, nRecJets, NoMatch, maxDist)
BwdChoice(r) == ScanGen(dR, r, 0, nGenJets, NoMatch, maxDist)

StaleAtEntry ==
  /\ atEntry.iGenIndex # AllNoMatch
  /\ atEntry.iRecIndex # AllNoMatch

\* C1: when GetClosestJets returns, iRecIndex[g] = r (r # -1) implies
\* iGenIndex[r] = g and iGenIndex[r] = g (g # -1) implies iRecIndex[g] = r.
C1_Symmetric ==
  pc = "done" =>
    \A g \in Slots, r \in Slots :
      /\ iRecIndex[g] = r => iGenIndex[r] = g
      /\ iGenIndex[r] = g => iRecIndex[g] = r

\* C2: every pair (g, r) with iFlag[g][r] = 3 is reported in both
\* directions when GetClosestJets returns: iRecIndex[g] = r and
\* iGenIndex[r] = g.
C2_MutualReported ==
  pc = "done" =>
    \A g \in GenJets, r \in RecJets :
      iFlag[g][r] = 3 => (iRecIndex[g] = r /\ iGenIndex[r] = g)

C4_EmptyInput ==
  (pc = "done" /\ (nGenJets = 0 \/ nRecJets = 0)) =>
    /\ iGenIndex = AllNoMatch
    /\ iRecIndex = AllNoMatch
    /\ passes = {}

\* no generated jet, some reconstructed jets, stale output buffers
C4_Witness ==
  /\ pc = "done"
  /\ nGenJets = 0
  /\ nRecJets > 0
  /\ StaleAtEntry

\* C5: in the forward and in the backward pass a candidate is selected only
\* at a distance strictly below maxDist: a candidate at maxDist or beyond
\* is never selected and gets no flag bit, a jet whose candidates are all
\* that far keeps -1, and a jet with a candidate below maxDist gets one.
C5_Threshold ==
  /\ pc = "forward" =>
       \A g \in GenJets :
         /\ iRecIndex[g] # NoMatch => dR[g][iRecIndex[g]] < maxDist
         /\ (\A r \in RecJets : dR[g][r] >= maxDist) <=> iRecIndex[g] = NoMatch
  /\ pc = "backward" =>
       \A r \in RecJets :
         /\ iGenIndex[r] # NoMatch => dR[iGenIndex[r]][r] < maxDist
         /\ (\A g \in GenJets : dR[g][r] >= maxDist) <=> iGenIndex[r] = NoMatch
  /\ pc \in {"forward", "backward", "done"} =>
       \A g \in GenJets, r \in RecJets :
         dR[g][r] >= maxDist => iFlag[g][r] = 0

\* both passes are over: a pair just below maxDist is selected in both, and
\* a generated jet with a candidate at exactly maxDist has none
C5_Witness ==
  /\ pc = "backward"
  /\ \E g \in GenJets, r \in RecJets :
       /\ dR[g][r] = maxDist - 1
       /\ iRecIndex[g] = r
       /\ iGenIndex[r] = g
  /\ \E g \in GenJets :
       /\ \E r \in RecJets : dR[g][r] = maxDist
       /\ iRecIndex[g] = NoMatch

\* C6: the association GetClosestJets returns is one-to-one: no two
\* generated jets share a reconstructed jet and no two reconstructed jets
\* share a generated jet.
C6_OneToOne ==
  pc = "done" =>
    /\ \A g1 \in Slots, g2 \in Slots :
         (g1 # g2 /\ iRecIndex[g1] = iRecIndex[g2]) => iRecIndex[g1] = NoMatch
    /\ \A r1 \in Slots, r2 \in Slots :
         (r1 # r2 /\ iGenIndex[r1] = iGenIndex[r2]) => iGenIndex[r1] = NoMatch

\* two generated jets chose the same reconstructed jet and one is matched
C6_Witness ==
  /\ pc = "done"
  /\ \E g1 \in GenJets, g2 \in GenJets :
       /\ g1 # g2
       /\ FwdChoice(g1) # NoMatch
       /\ FwdChoice(g1) = FwdChoice(g2)
       /\ iRecIndex[g1] # NoMatch

\* C7: on return every slot at or past the count holds -1, and every slot
\* below the count holds -1 or an index of the other collection.
C7_SlotsCovered ==
  pc = "done" =>
    \A i \in Slots :
      /\ i >= nGenJets => iRecIndex[i] = NoMatch
      /\ i >= nRecJets => iGenIndex[i] = NoMatch
      /\ i < nGenJets => (iRecIndex[i] = NoMatch \/ iRecIndex[i] \in RecJets)
      /\ i < nRecJets => (iGenIndex[i] = NoMatch \/ iGenIndex[i] \in GenJets)

\* a matched pair, free slots past both counts, stale output buffers
C7_Witness ==
  /\ pc = "done"
  /\ StaleAtEntry
  /\ nGenJets < kMaxJets
  /\ nRecJets < kMaxJets
  /\ \E g \in GenJets : iRecIndex[g] # NoMatch /\ iGenIndex[iRecIndex[g]] = g

\* C8: GetClosestJets carries no state between invocations: whatever the
\* output buffers and the flag matrix held at entry, it returns the arrays
\* a call entered with every slot at -1 returns for the same distances and
\* counts, and it leaves the counts and the jets as they were.
C8_NoCarriedState ==
  pc = "done" =>
    LET fresh == GetClosestJets(atEntry.dR, atEntry.nGenJets, atEntry.nRecJets,
                                AllNoMatch, AllNoMatch, ZeroFlag)
    IN /\ iGenIndex = fresh.gen
       /\ iRecIndex = fresh.rec
       /\ nGenJets = atEntry.nGenJets
       /\ nRecJets = atEntry.nRecJets
       /\ dR = atEntry.dR

\* a call entered with stale buffers returns a match
C8_Witness ==
  /\ pc = "done"
  /\ StaleAtEntry
  /\ passes = {"forward", "backward", "consensus"}
  /\ \E g \in GenJets : iRecIndex[g] # NoMatch
  /\ \E r \in RecJets : iGenIndex[r] = NoMatch

\* C9: an event of UserExec with a missing input (output AOD handler,
\* reconstructed-jet array, MC event or Pythia header with MC analysis on,
\* configured generated-jet branch) is skipped by an early return and fills
\* no histogram.
C9_MissingInputSkipped ==
  [][(fEntry' = fEntry + 1 /\ event' # NoEvent) =>
       (outcome' = "skipped" /\ hist' = hist /\ taskPc' = taskPc)]_vars

\* C10: every index UserExec uses to write genJets, recJets or
\* pythiaGenJets is in [0, kMaxJets), and the counts it passes to
\* GetClosestJets are in [0, kMaxJets].
C10_WithinCapacity ==
  /\ \A i \in written.genJets \cup written.recJets \cup written.pythiaGenJets :
       0 <= i /\ i < kMaxJets
  /\ outcome = "processed" =>
       (nGenJets \in 0 .. kMaxJets /\ nRecJets \in 0 .. kMaxJets)

\* the smallest distance from g to a reconstructed jet, from r to a generated
\* jet, and the first jet at that distance
MinDistRec(g) == CHOOSE m \in {dR[g][r] : r \in RecJets} :
                   \A r \in RecJets : m <= dR[g][r]
MinDistGen(r) == CHOOSE m \in {dR[g][r] : g \in GenJets} :
                   \A g \in GenJets : m <= dR[g][r]
FirstMinRec(g) == CHOOSE r \in RecJets :
                    /\ dR[g][r] = MinDistRec(g)
                    /\ \A q \in RecJets : dR[g][q] = MinDistRec(g) => r <= q
FirstMinGen(r) == CHOOSE g \in GenJets :
                    /\ dR[g][r] = MinDistGen(r)
                    /\ \A q \in GenJets : dR[q][r] = MinDistGen(r) => g <= q

\* C11: after the forward pass iRecIndex[g] is, for every g < nGenJets, the
\* smallest index r < nRecJets at the minimum distance from g when that
\* minimum is strictly below maxDist, and -1 otherwise; after the backward
\* pass the same holds for iGenIndex[r], ties going to the smallest g.
C11_FirstMinimum ==
  /\ pc = "forward" =>
       \A g \in GenJets :
         iRecIndex[g] = IF MinDistRec(g) < maxDist THEN FirstMinRec(g) ELSE NoMatch
  /\ pc = "backward" =>
       \A r \in RecJets :
         iGenIndex[r] = IF MinDistGen(r) < maxDist THEN FirstMinGen(r) ELSE NoMatch

Bit1(f) == f % 2 = 1
Bit2(f) == (f \div 2) % 2 = 1

\* C13: once the flag matrix is zeroed every cell of iFlag is in {0,1,2,3}
\* and the cells outside [0, nGenJets) x [0, nRecJets) stay 0; after the
\* forward pass bit 1 is set exactly in the cell of each g's forward choice
\* (at most one per row), after the backward pass bit 2 is set exactly in
\* the cell of each r's backward choice (at most one per column), so a row
\* or a column holds at most one 3.
C13_FlagMatrix ==
  /\ pc \in {"zeroed", "forward", "backward", "done"} =>
       \A g \in Slots, r \in Slots :
         /\ iFlag[g][r] \in 0 .. 3
         /\ (g \notin GenJets \/ r \notin RecJets) => iFlag[g][r] = 0
  /\ pc = "zeroed" => iFlag = ZeroFlag
  /\ pc = "forward" =>
       \A g \in Slots, r \in Slots :
         /\ Bit1(iFlag[g][r]) <=> (g \in GenJets /\ iRecIndex[g] = r)
         /\ ~Bit2(iFlag[g][r])
  /\ pc = "backward" =>
       \A g \in Slots, r \in Slots :
         Bit2(iFlag[g][r]) <=> (r \in RecJets /\ iGenIndex[r] = g)
  /\ pc \in {"forward", "backward", "done"} =>
       \A g \in Slots, r \in Slots :
         /\ Bit1(iFlag[g][r]) <=> (g \in GenJets /\ FwdChoice(g) = r)
         /\ \A q \in Slots : (Bit1(iFlag[g][r]) /\ Bit1(iFlag[g][q])) => q = r
  /\ pc \in {"backward", "done"} =>
       \A g \in Slots, r \in Slots :
         /\ Bit2(iFlag[g][r]) <=> (r \in RecJets /\ BwdChoice(r) = g)
         /\ \A q \in Slots : (Bit2(iFlag[g][r]) /\ Bit2(iFlag[q][r])) => q = g
         /\ \A q \in Slots : (iFlag[g][r] = 3 /\ iFlag[g][q] = 3) => q = r
         /\ \A q \in Slots : (iFlag[g][r] = 3 /\ iFlag[q][r] = 3) => q = g

\* both passes are over and the matrix holds a 3, a 1 and a 2
C13_Witness ==
  /\ pc = "backward"
  /\ \E g \in GenJets, r \in RecJets : iFlag[g][r] = 3
  /\ \E g \in GenJets, r \in RecJets : iFlag[g][r] = 1
  /\ \E g \in GenJets, r \in RecJets : iFlag[g][r] = 2


TypeOK ==
  /\ pc \in {"idle", "entry", "zeroed", "forward", "backward", "done"}
  /\ nGenJets \in 0 .. kMaxJets
  /\ nRecJets \in 0 .. kMaxJets
  /\ taskPc \in {"constructed", "ready", "crashed"}
  /\ outcome \in {"none", "skipped", "processed", "crashed"}
====
